---- MODULE Spec2Model ----
(***************************************************************************)
(* The fixture engine of bocadillo (src/bocadillo/fixtures.py): a Store    *)
(* of named Fixture objects, Store.fixture / resolve_function / freeze,    *)
(* and the execution of the with_fixtures wrappers they produce.           *)
(*                                                                         *)
(* Function objects are immutable and are modelled by their structure: a   *)
(* plain definition, a wrap_async wrapper around a function, or a          *)
(* with_fixtures closure around a function and the Fixture objects it      *)
(* bound.  Fixture objects are mutable (freeze assigns fixt.func), so they *)
(* live in a heap, fixts, and an index into it is the object's identity.   *)
(* The program runs on one cooperative thread: a call of a resolved        *)
(* function runs to completion and leaves the sequence of its events.      *)
(***************************************************************************)
EXTENDS Integers, Sequences, FiniteSets, TLC

VARIABLES
    fixts,             \* heap of Fixture objects
    session_fixtures,  \* Store.session_fixtures: insertion-ordered dict name -> Fixture
    handle,            \* the function the program got from its last resolve_function
    result,            \* outcome of the last Store operation or call
    log                \* events of the calls made since the store last changed

vars == <<fixts, session_fixtures, handle, result, log>>

(***************************************************************************)
(* Bounds of the model.                                                    *)
(***************************************************************************)
MaxFixts == 2      \* Fixture objects ever constructed
MaxNest == 2       \* with_fixtures layers around one fixture function
MaxCalls == 2      \* calls of the resolved function between two store changes
MaxDepth == 6      \* nested function calls before RecursionError

SCOPE_SESSION == "session"

(***************************************************************************)
(* The function definitions of the program.  pos are the ordinary          *)
(* parameters, kwonly the keyword-only ones, in declaration order; async   *)
(* tells an `async def`; awaits tells a body that awaits every coroutine   *)
(* handle it was given.                                                    *)
(***************************************************************************)
Def(pos, kwonly, async, awaits) ==
    [pos |-> pos, kwonly |-> kwonly, async |-> async, awaits |-> awaits]

Defs ==
    [ a     |-> Def(<<>>, <<>>, FALSE, FALSE),          \* def a(): ...
      pitch |-> Def(<<>>, <<>>, TRUE, FALSE),           \* async def pitch(): ...
      b     |-> Def(<<"a">>, <<>>, FALSE, FALSE),       \* def b(a): ...
      a_b   |-> Def(<<"b">>, <<>>, FALSE, FALSE),       \* def a(b): ...
      play  |-> Def(<<"a", "x">>, <<>>, FALSE, FALSE),  \* def play(a, x): ...
      late  |-> Def(<<"x", "a">>, <<>>, FALSE, FALSE),  \* def late(x, a): ...
      view  |-> Def(<<"a">>, <<"b">>, TRUE, TRUE) ]     \* async def view(a, *, b): await ...

ConsumerDefs == {"play", "late", "view"}

Nil == [kind |-> "nil"]

UserFunc(d) ==
    [kind |-> "user", def |-> d, inner |-> Nil, args_fixtures |-> <<>>,
     kwargs_fixtures |-> <<>>]

(***************************************************************************)
(* inspect / functools                                                     *)
(***************************************************************************)
\* the definition reached by following __wrapped__ (functools.wraps)
RECURSIVE Unwrap(_)
Unwrap(f) == IF f.kind = "user" THEN f.def ELSE Unwrap(f.inner)

\* inspect.signature(f).parameters: names in declaration order
signature(f) == Defs[Unwrap(f)].pos \o Defs[Unwrap(f)].kwonly

Range(seq) == {seq[i] : i \in DOMAIN seq}

KEYWORD_ONLY(f, name) == name \in Range(Defs[Unwrap(f)].kwonly)

iscoroutinefunction(f) == f.kind # "user" \/ Defs[f.def].async

\* compat.wrap_async(func): a coroutine function that calls func, made
\* with functools.wraps so that its signature is that of func
wrap_async(f) ==
    [kind |-> "wrap_async", def |-> "", inner |-> f, args_fixtures |-> <<>>,
     kwargs_fixtures |-> <<>>]

(***************************************************************************)
(* Store: the registry                                                     *)
(***************************************************************************)
NoFixture == 0     \* Python's None where a Fixture is looked up

\* Store._get(name): the Fixture registered under name, or None
RECURSIVE _get(_, _)
_get(reg, name) ==
    IF reg = <<>> THEN NoFixture
    ELSE IF Head(reg).name = name THEN Head(reg).fixt
    ELSE _get(Tail(reg), name)

\* Store._exists / Store.__contains__
_exists(reg, name) == _get(reg, name) # NoFixture

\* Store._add(fixt): collection[fixt.name] = fixt; a dict keeps the place
\* of a key that is assigned again
_add(reg, name, fixt) ==
    IF _exists(reg, name)
    THEN [i \in DOMAIN reg |->
            IF reg[i].name = name THEN [name |-> name, fixt |-> fixt] ELSE reg[i]]
    ELSE Append(reg, [name |-> name, fixt |-> fixt])

\* Store._get_fixtures(func): the parameters of func that name a
\* registered fixture, in declaration order (the keys of the dict)
RECURSIVE RegisteredAmong(_, _)
RegisteredAmong(reg, params) ==
    IF params = <<>> THEN <<>>
    ELSE IF _get(reg, Head(params)) # NoFixture
         THEN <<Head(params)>> \o RegisteredAmong(reg, Tail(params))
         ELSE RegisteredAmong(reg, Tail(params))

_get_fixtures(reg, f) == RegisteredAmong(reg, signature(f))

\* Store._check_for_recursive_fixtures(name, func): the other_name the
\* RecursiveFixtureError is raised with, or "" when the loop ends
RECURSIVE FirstRecursive(_, _, _, _)
FirstRecursive(reg, fx, name, others) ==
    IF others = <<>> THEN ""
    ELSE IF name \in Range(_get_fixtures(reg, fx[_get(reg, Head(others))].func))
         THEN Head(others)
         ELSE FirstRecursive(reg, fx, name, Tail(others))

_check_for_recursive_fixtures(reg, fx, name, f) ==
    FirstRecursive(reg, fx, name, _get_fixtures(reg, f))

\* the registry the recursion check reads: fixture() saves the new
\* fixture first (fixtures.py, NOTE at lines 109-112)
CheckBeforeAdd(before, after) == before
RegistryChecked(before, after) == after

\* Fixture.__init__ and resolve_function: a function that is no coroutine
\* function is wrapped by wrap_async
Normalise(f) == IF iscoroutinefunction(f) THEN f ELSE wrap_async(f)

NoValue == [t |-> "none", id |-> 0, func |-> Nil]

\* The outcome of an operation: op and name tell the operation and what it
\* was given; err is the exception raised ("" when it returned), first and
\* second the names a RecursiveFixtureError carries; fixt, func and val are
\* the Fixture, function or value returned.
NoResult ==
    [op |-> "", name |-> "", err |-> "", first |-> "", second |-> "",
     fixt |-> NoFixture, func |-> Nil, val |-> NoValue]
Raised(op, name, err, first, second) ==
    [NoResult EXCEPT !.op = op, !.name = name, !.err = err, !.first = first,
                     !.second = second]

\* Store.fixture(func, scope, name, lazy)
StoreFixture(d, name, scope, lazy) ==
    /\ log' = <<>>
    /\ UNCHANGED handle
    /\ IF lazy /\ scope # SCOPE_SESSION
       THEN \* Fixture.__init__ raises before anything is stored
            /\ result' = Raised("fixture", name, "FixtureDeclarationError", "", "")
            /\ UNCHANGED <<fixts, session_fixtures>>
       ELSE LET fixt == [func |-> Normalise(UserFunc(d)), name |-> name,
                         scope |-> scope, lazy |-> lazy]
                fx   == Append(fixts, fixt)
                reg  == _add(session_fixtures, name, Len(fx))
                other == _check_for_recursive_fixtures(
                             RegistryChecked(session_fixtures, reg),
                             fx, name, UserFunc(d))
            IN  /\ Len(fx) <= MaxFixts
                /\ fixts' = fx
                /\ session_fixtures' = reg
                /\ result' = IF other # ""
                             THEN Raised("fixture", name,
                                         "RecursiveFixtureError", name, other)
                             ELSE [NoResult EXCEPT !.op = "fixture",
                                                   !.name = name,
                                                   !.fixt = Len(fx)]

(***************************************************************************)
(* Store: resolution                                                       *)
(***************************************************************************)
\* the processing_fixtures flag after one parameter of the loop:
\* it goes down on a parameter that names no fixture
FlagStaysUp(processing_fixtures, fixt) == processing_fixtures
FlagAfter(processing_fixtures, fixt) ==
    IF fixt = NoFixture THEN FALSE ELSE processing_fixtures

\* Store._resolve_fixtures(func): the loop over the parameters from
\* params on, with the state it has reached
RECURSIVE ResolveLoop(_, _, _, _, _, _)
ResolveLoop(reg, f, params, processing_fixtures, args_fixtures, kwargs_fixtures) ==
    IF params = <<>>
    THEN [err |-> "", args_fixtures |-> args_fixtures,
          kwargs_fixtures |-> kwargs_fixtures]
    ELSE LET name == Head(params)
             fixt == _get(reg, name)
         IN  IF fixt = NoFixture
             THEN ResolveLoop(reg, f, Tail(params),
                              FlagAfter(processing_fixtures, fixt),
                              args_fixtures, kwargs_fixtures)
             ELSE IF ~FlagAfter(processing_fixtures, fixt)
             THEN [err |-> "FixtureDeclarationError", args_fixtures |-> <<>>,
                   kwargs_fixtures |-> <<>>]
             ELSE IF KEYWORD_ONLY(f, name)
             THEN ResolveLoop(reg, f, Tail(params), processing_fixtures,
                              args_fixtures,
                              Append(kwargs_fixtures, <<name, fixt>>))
             ELSE ResolveLoop(reg, f, Tail(params), processing_fixtures,
                              Append(args_fixtures, <<name, fixt>>),
                              kwargs_fixtures)

_resolve_fixtures(reg, f) ==
    ResolveLoop(reg, f, signature(f), TRUE, <<>>, <<>>)

\* the closure `with_fixtures` of resolve_function, decorated with
\* functools.wraps(func)
with_fixtures(f, args_fixtures, kwargs_fixtures) ==
    [kind |-> "with_fixtures", def |-> "", inner |-> f,
     args_fixtures |-> args_fixtures, kwargs_fixtures |-> kwargs_fixtures]

\* Store.resolve_function(func): the function returned or the error raised
resolve_function(reg, f) ==
    LET func == Normalise(f)
        r    == _resolve_fixtures(reg, func)
    IN  IF r.err # ""
        THEN [err |-> r.err, func |-> Nil]
        ELSE IF r.args_fixtures = <<>> /\ r.kwargs_fixtures = <<>>
        THEN [err |-> "", func |-> func]
        ELSE [err |-> "",
              func |-> with_fixtures(func, r.args_fixtures, r.kwargs_fixtures)]

ResolveFunction(d) ==
    /\ LET r == resolve_function(session_fixtures, UserFunc(d))
       IN  /\ handle' = r.func
           /\ result' = IF r.err # ""
                        THEN Raised("resolve_function", d, r.err, "", "")
                        ELSE [NoResult EXCEPT !.op = "resolve_function",
                                              !.name = d, !.func = r.func]
    /\ log' = <<>>
    /\ UNCHANGED <<fixts, session_fixtures>>

\* the number of with_fixtures closures around a function
RECURSIVE Nesting(_)
Nesting(f) ==
    IF f.kind = "user" THEN 0
    ELSE Nesting(f.inner) + (IF f.kind = "with_fixtures" THEN 1 ELSE 0)

\* Store.freeze(): the loop over session_fixtures.values() from position i
RECURSIVE FreezeLoop(_, _, _)
FreezeLoop(reg, fx, i) ==
    IF i > Len(reg) THEN [fixts |-> fx, err |-> ""]
    ELSE LET fixt == reg[i].fixt
             r    == resolve_function(reg, fx[fixt].func)
         IN  IF r.err # ""
             THEN [fixts |-> fx, err |-> r.err]
             ELSE FreezeLoop(reg, [fx EXCEPT ![fixt].func = r.func], i + 1)

FreezeSkippingFirst(reg, fx) == FreezeLoop(reg, fx, 2)
freeze(reg, fx) == FreezeLoop(reg, fx, 1)

Freeze ==
    /\ LET r == freeze(session_fixtures, fixts)
       IN  /\ \A i \in DOMAIN r.fixts : Nesting(r.fixts[i].func) <= MaxNest
           /\ fixts' = r.fixts
           /\ result' = IF r.err # "" THEN Raised("freeze", "", r.err, "", "")
                        ELSE [NoResult EXCEPT !.op = "freeze"]
    /\ log' = <<>>
    /\ UNCHANGED <<session_fixtures, handle>>

(***************************************************************************)
(* Calls.  A value is an object made by a function body (its identity is   *)
(* the position in the log of the body that made it), an unawaited         *)
(* coroutine of a function called with no argument, or a literal the       *)
(* caller passes.                                                          *)
(***************************************************************************)
Obj(i) == [t |-> "obj", id |-> i, func |-> Nil]
Coro(f) == [t |-> "coro", id |-> 0, func |-> f]
Lit == [t |-> "lit", id |-> 0, func |-> Nil]

\* An event of a call.  frame is the position of the first event of the
\* function invocation that emits it, parent the frame of its caller (the
\* call event, for a call the program makes).  The events of a with_fixtures invocation are enter,
\* evaluate and injected around each fixture, invoke before the call of the
\* original function, exit; those of a plain function are body when its
\* body starts, await and awaited around each handle it awaits, exit.
Ev(ev, frame, parent) ==
    [ev |-> ev, frame |-> frame, parent |-> parent, name |-> "",
     fixt |-> NoFixture, func |-> Nil, val |-> NoValue, args |-> <<>>,
     kwargs |-> <<>>, err |-> ""]

Keys(kwargs) == [i \in DOMAIN kwargs |-> kwargs[i][1]]
Distinct(seq) == \A i, j \in DOMAIN seq : seq[i] = seq[j] => i = j

\* Python's binding of the arguments of a call to the parameters of
\* definition d (no parameter has a default): whether the call is
\* accepted, and the values in declaration order
Bind(d, args, kwargs) ==
    LET pos    == Defs[d].pos
        params == pos \o Defs[d].kwonly
        Given(i) == {j \in DOMAIN kwargs : kwargs[j][1] = params[i]}
        ok == /\ Len(args) <= Len(pos)
              /\ Distinct(Keys(kwargs))
              /\ Range(Keys(kwargs)) \subseteq Range(params)
              /\ \A i \in DOMAIN params :
                    IF i <= Len(args) THEN Given(i) = {} ELSE Given(i) # {}
    IN  [ok |-> ok,
         bound |-> IF ok
                   THEN [i \in DOMAIN params |->
                            IF i <= Len(args) THEN args[i]
                            ELSE kwargs[CHOOSE j \in Given(i) : TRUE][2]]
                   ELSE <<>>]

\* what with_fixtures evaluates, in order: injected_args is built first,
\* then injected_kwargs
Tagged(kw, fixtures) ==
    [i \in DOMAIN fixtures |->
        [kw |-> kw, name |-> fixtures[i][1], fixt |-> fixtures[i][2]]]
KeywordsFirst(f) ==
    Tagged(TRUE, f.kwargs_fixtures) \o Tagged(FALSE, f.args_fixtures)
Injections(f) ==
    Tagged(FALSE, f.args_fixtures) \o Tagged(TRUE, f.kwargs_fixtures)

\* the Fixture object with_fixtures evaluates for a parameter: the one its
\* closure bound
LookedUpAtCall(name, fixt) ==
    IF _exists(session_fixtures, name) THEN _get(session_fixtures, name)
    ELSE fixt
BoundFixture(name, fixt) == fixt

\* `fixt() if fixt.lazy else await fixt()`: whether the coroutine is awaited
AlwaysAwaited(fixt) == TRUE
Awaited(fixt) == ~fixt.lazy

\* `func(*injected_args, *args, **injected_kwargs, **kwargs)`
CallerFirst(injected_args, args) == args \o injected_args
CallArgs(injected_args, args) == injected_args \o args
CallKwargs(injected_kwargs, kwargs) == injected_kwargs \o kwargs

RECURSIVE Invoke(_, _, _, _, _, _, _)
RECURSIVE InjectLoop(_, _, _, _, _, _, _, _)
RECURSIVE AwaitLoop(_, _, _, _, _, _)

Failed(tr, err) == [tr |-> tr, err |-> err, val |-> NoValue]

\* the value of an earlier evaluation of the fixture in tr, if any
Memo(tr, fixt) ==
    {i \in DOMAIN tr : /\ tr[i].ev = "injected" /\ tr[i].fixt = fixt
                       /\ tr[i].val.t = "obj"}
Memoized(fx, fixt, tr, parent, depth) ==
    IF Memo(tr, fixt) # {}
    THEN [tr |-> tr, err |-> "",
          val |-> tr[CHOOSE i \in Memo(tr, fixt) : TRUE].val]
    ELSE Invoke(fx, fx[fixt].func, <<>>, <<>>, tr, parent, depth)

\* `await fixt()`: Fixture.__call__ calls self.func with no argument
AwaitFixture(fx, fixt, tr, parent, depth) ==
    Invoke(fx, fx[fixt].func, <<>>, <<>>, tr, parent, depth)

\* the comprehensions of with_fixtures over the fixtures still to evaluate
InjectLoop(fx, todo, tr, me, parent, depth, injected_args, injected_kwargs) ==
    IF todo = <<>>
    THEN [tr |-> tr, err |-> "", injected_args |-> injected_args,
          injected_kwargs |-> injected_kwargs]
    ELSE LET p     == Head(todo)
             fixt  == BoundFixture(p.name, p.fixt)
             tr1   == Append(tr, [Ev("evaluate", me, parent) EXCEPT
                                     !.name = p.name, !.fixt = fixt])
             r     == IF Awaited(fx[fixt])
                      THEN AwaitFixture(fx, fixt, tr1, me, depth + 1)
                      ELSE [tr |-> tr1, err |-> "", val |-> Coro(fx[fixt].func)]
             tr2   == Append(r.tr, [Ev("injected", me, parent) EXCEPT
                                     !.name = p.name, !.fixt = fixt,
                                     !.val = r.val])
         IN  IF r.err # ""
             THEN [tr |-> r.tr, err |-> r.err, injected_args |-> <<>>,
                   injected_kwargs |-> <<>>]
             ELSE IF p.kw
             THEN InjectLoop(fx, Tail(todo), tr2, me, parent, depth,
                             injected_args,
                             Append(injected_kwargs, <<p.name, r.val>>))
             ELSE InjectLoop(fx, Tail(todo), tr2, me, parent, depth,
                             Append(injected_args, r.val), injected_kwargs)

\* a body that awaits the coroutine handles among its arguments, in order
AwaitLoop(fx, bound, tr, me, parent, depth) ==
    IF bound = <<>> THEN [tr |-> tr, err |-> ""]
    ELSE IF Head(bound).t # "coro"
    THEN AwaitLoop(fx, Tail(bound), tr, me, parent, depth)
    ELSE LET tr1 == Append(tr, [Ev("await", me, parent) EXCEPT !.val = Head(bound)])
             r   == Invoke(fx, Head(bound).func, <<>>, <<>>, tr1, me, depth + 1)
             tr2 == Append(r.tr, [Ev("awaited", me, parent) EXCEPT !.val = r.val])
         IN  IF r.err # "" THEN [tr |-> r.tr, err |-> r.err]
             ELSE AwaitLoop(fx, Tail(bound), tr2, me, parent, depth)

\* the call f(*args, **kwargs), awaited: the log after it, and the value
\* returned or the error raised
Invoke(fx, f, args, kwargs, tr, parent, depth) ==
    LET me == Len(tr) + 1
        Exit(t, err, val) ==
            [tr |-> Append(t, [Ev("exit", me, parent) EXCEPT
                                  !.err = err, !.val = val]),
             err |-> err, val |-> val]
    IN  IF depth > MaxDepth THEN Failed(tr, "RecursionError")
        ELSE IF f.kind = "wrap_async"
        THEN Invoke(fx, f.inner, args, kwargs, tr, parent, depth + 1)
        ELSE IF f.kind = "user"
        THEN LET b   == Bind(f.def, args, kwargs)
                 tr1 == Append(tr, [Ev("body", me, parent) EXCEPT
                                       !.name = f.def, !.val = Obj(me),
                                       !.args = args, !.kwargs = kwargs])
                 r   == IF Defs[f.def].awaits
                        THEN AwaitLoop(fx, b.bound, tr1, me, parent, depth)
                        ELSE [tr |-> tr1, err |-> ""]
             IN  IF ~b.ok THEN Exit(tr, "TypeError", NoValue)
                 ELSE IF r.err # "" THEN Exit(r.tr, r.err, NoValue)
                 ELSE Exit(r.tr, "", Obj(me))
        ELSE \* with_fixtures
             LET tr1 == Append(tr, [Ev("enter", me, parent) EXCEPT
                                       !.func = f, !.args = args,
                                       !.kwargs = kwargs])
                 r   == InjectLoop(fx, Injections(f), tr1, me, parent, depth,
                                   <<>>, <<>>)
                 a   == CallArgs(r.injected_args, args)
                 k   == CallKwargs(r.injected_kwargs, kwargs)
                 tr2 == Append(r.tr, [Ev("invoke", me, parent) EXCEPT
                                         !.args = a, !.kwargs = k])
                 c   == Invoke(fx, f.inner, a, k, tr2, me, depth + 1)
             IN  IF r.err # "" THEN Exit(r.tr, r.err, NoValue)
                 ELSE IF ~Distinct(Keys(k)) THEN Exit(r.tr, "TypeError", NoValue)
                 ELSE Exit(c.tr, c.err, c.val)

\* the arguments the program calls a resolved function with: callers
\* supply the non-fixture parameter x, by position or by keyword
Arguments(f) ==
    IF "x" \in Range(signature(f))
    THEN { [args |-> <<Lit>>, kwargs |-> <<>>],
           [args |-> <<>>, kwargs |-> << <<"x", Lit>> >>] }
    ELSE { [args |-> <<>>, kwargs |-> <<>>] }

TopCalls(tr) == Cardinality({i \in DOMAIN tr : tr[i].ev = "call"})

\* the program awaits handle(*args, **kwargs)
Call(args, kwargs) ==
    /\ TopCalls(log) < MaxCalls
    /\ LET tr == Append(log, [Ev("call", Len(log) + 1, 0) EXCEPT
                                 !.args = args, !.kwargs = kwargs])
           r  == Invoke(fixts, handle, args, kwargs, tr, Len(tr), 1)
       IN  /\ log' = r.tr
           /\ result' = [NoResult EXCEPT !.op = "call", !.err = r.err,
                                         !.val = r.val]
    /\ UNCHANGED <<fixts, session_fixtures, handle>>

Init ==
    /\ fixts = <<>>
    /\ session_fixtures = <<>>
    /\ handle = Nil
    /\ result = NoResult
    /\ log = <<>>

\* the declarations the program makes: fixture(func, name=..., scope=...,
\* lazy=...)
Registrations ==
    { <<"a", "a", SCOPE_SESSION, FALSE>>,
      <<"a", "a", SCOPE_SESSION, TRUE>>,
      <<"pitch", "a", SCOPE_SESSION, FALSE>>,
      <<"pitch", "a", SCOPE_SESSION, TRUE>>,
      <<"b", "b", SCOPE_SESSION, FALSE>>,
      <<"a_b", "a", SCOPE_SESSION, FALSE>>,
      <<"a", "b", "app", TRUE>> }

CallNext ==
    /\ handle # Nil
    /\ \E a \in Arguments(handle) : Call(a.args, a.kwargs)

Next ==
    \/ \E r \in Registrations : StoreFixture(r[1], r[2], r[3], r[4])
    \/ \E d \in ConsumerDefs : ResolveFunction(d)
    \/ Freeze
    \/ CallNext

Spec == Init /\ [][Next]_vars

(***************************************************************************)
(* Properties                                                              *)
(***************************************************************************)
Events(ev) == {i \in DOMAIN log : log[i].ev = ev}

\* the Fixture objects the registry holds
Registered == {session_fixtures[i].fixt : i \in DOMAIN session_fixtures}

\* the evaluate event an injected event answers
EvaluateOf(j) ==
    {e \in 1..(j - 1) : /\ log[e].ev = "evaluate"
                        /\ log[e].frame = log[j].frame
                        /\ log[e].name = log[j].name
                        /\ log[e].fixt = log[j].fixt}

\* C1: fixture values are never memoized.  Every value a resolved function
\* injects for a non-lazy fixture is an object made by a body that ran
\* inside that very evaluation (after its evaluate event, before its
\* injected event), each fixture is evaluated once per invocation, and no
\* object is injected twice: the object of one call is never seen by the
\* next.
C1_RecomputedEveryCall ==
    /\ \A j \in Events("injected") :
          ~fixts[log[j].fixt].lazy =>
             /\ log[j].val.t = "obj"
             /\ log[j].val.id < j
             /\ log[log[j].val.id].ev = "body"
             /\ \E e \in EvaluateOf(j) : e < log[j].val.id
             /\ \A i \in Events("injected") : i # j => log[i].val # log[j].val
    /\ \A e1, e2 \in Events("evaluate") :
          (log[e1].frame = log[e2].frame /\ log[e1].name = log[e2].name)
             => e1 = e2

\* two calls of the resolved function `play` have returned, each with its
\* own value of the same non-lazy fixture
C1_Witness ==
    /\ result.op = "call" /\ result.err = ""
    /\ TopCalls(log) = 2
    /\ Unwrap(handle) = "play"
    /\ \E i, j \in Events("injected") :
          /\ i < j
          /\ log[i].fixt = log[j].fixt
          /\ ~fixts[log[i].fixt].lazy
          /\ log[log[i].parent].ev = "call"
          /\ log[log[j].parent].ev = "call"
          /\ log[i].parent # log[j].parent

\* C2: a Store.fixture call that fails with FixtureDeclarationError or
\* RecursiveFixtureError leaves the name-to-fixture mapping as it was
\* before the call.
C2_FailedRegistrationIsAtomic ==
    [][(result'.op = "fixture" /\ result'.err # "")
          => session_fixtures' = session_fixtures]_vars

\* the fixtures that the fixture registered last, under name, depends on
\* and that depend on name: those that name it among the parameters of
\* their function
MutuallyDependent(name) ==
    LET new == fixts[Len(fixts)]
    IN  {m \in Range(signature(new.func)) :
            /\ _exists(session_fixtures, m)
            /\ name \in Range(signature(fixts[_get(session_fixtures, m)].func))}

Params(d) == Defs[d].pos \o Defs[d].kwonly
FixtureAfterOther(d) ==
    \E i, j \in DOMAIN Params(d) :
        /\ i < j
        /\ ~_exists(session_fixtures, Params(d)[i])
        /\ _exists(session_fixtures, Params(d)[j])

\* the pairs (name, Fixture) of the parameters among params that name a
\* registered fixture, in order
RECURSIVE Bindings(_)
Bindings(params) ==
    IF params = <<>> THEN <<>>
    ELSE IF _exists(session_fixtures, Head(params))
         THEN << <<Head(params), _get(session_fixtures, Head(params))>> >>
                 \o Bindings(Tail(params))
         ELSE Bindings(Tail(params))

\* the values wrapper frame w injected from position i on, in order: those
\* of its keyword-only parameters when kw, of the others when not
RECURSIVE ValuesFrom(_, _, _)
ValuesFrom(i, w, kw) ==
    IF i > Len(log) THEN <<>>
    ELSE IF /\ log[i].ev = "injected" /\ log[i].frame = w
            /\ KEYWORD_ONLY(log[w].func, log[i].name) = kw
         THEN <<log[i].val>> \o ValuesFrom(i + 1, w, kw)
         ELSE ValuesFrom(i + 1, w, kw)
InjectedArgs(w) == ValuesFrom(w, w, FALSE)

\* C4: resolve_function enforces the parameter order when it wraps.  If a
\* parameter naming a registered fixture comes after one naming none, it
\* raises FixtureDeclarationError and returns nothing; otherwise it
\* returns, and when some parameter names a fixture the function returned
\* is a wrapper that binds the fixture-named parameters in order and, when
\* called, passes the injected values ahead of the caller's.
C4_ParameterOrderEnforced ==
    /\ result.op = "resolve_function" =>
          IF FixtureAfterOther(result.name)
          THEN result.err = "FixtureDeclarationError" /\ handle = Nil
          ELSE /\ result.err = ""
               /\ handle = result.func
               /\ LET d == result.name
                  IN  IF Bindings(Params(d)) = <<>>
                      THEN handle = Normalise(UserFunc(d))
                      ELSE /\ handle.kind = "with_fixtures"
                           /\ handle.inner = Normalise(UserFunc(d))
                           /\ handle.args_fixtures = Bindings(Defs[d].pos)
                           /\ handle.kwargs_fixtures = Bindings(Defs[d].kwonly)
    /\ \A c \in Events("call") : \A v \in Events("invoke") :
          (handle.kind = "with_fixtures" /\ log[v].frame = c + 1) =>
             /\ Len(InjectedArgs(c + 1)) = Len(handle.args_fixtures)
             /\ log[v].args = InjectedArgs(c + 1) \o log[c].args

\* late(x, a) was given to resolve_function while a fixture a was registered
C4_Witness ==
    /\ result.op = "resolve_function"
    /\ result.name = "late"
    /\ _exists(session_fixtures, "a")
    /\ result.err = "FixtureDeclarationError"

\* the fixture computation of Fixture k, run on its own in store heap fx
Computation(fx, k) == Invoke(fx, fx[k].func, <<>>, <<>>, <<>>, 0, 1)

\* val is what the fixture named p provides in trace tr: its unawaited
\* coroutine when it is lazy, else an object made by its provider's body
Provides(tr, val, p) ==
    LET dep == fixts[_get(session_fixtures, p)]
    IN  IF dep.lazy THEN val = Coro(dep.func)
        ELSE /\ val.t = "obj"
             /\ tr[val.id].ev = "body"
             /\ tr[val.id].name = Unwrap(dep.func)

\* the last operation was a freeze that returned, and it was the first to
\* resolve each registered fixture
FrozenOnce ==
    /\ result.op = "freeze" /\ result.err = ""
    /\ \A k \in Registered : Nesting(fixts[k].func) <= 1

\* C5: fixture-in-fixture composition does not depend on the order of
\* registration.  After the freeze, the function of every registered
\* fixture is its provider wrapped with the registered Fixture objects of
\* all its fixture-named parameters, whatever the order of the registry;
\* and a computation that returns ran the provider's body on exactly the
\* values those fixtures provide, with no argument missing or in excess
\* when every parameter names a fixture.
C5_CompositionAnyOrder ==
    FrozenOnce =>
        \A k \in Registered :
            LET d == Unwrap(fixts[k].func)
                r == Computation(fixts, k)
            IN  /\ fixts[k].func =
                      IF Bindings(Params(d)) = <<>>
                      THEN Normalise(UserFunc(d))
                      ELSE with_fixtures(Normalise(UserFunc(d)),
                                         Bindings(Defs[d].pos),
                                         Bindings(Defs[d].kwonly))
                /\ Len(Bindings(Params(d))) = Len(Params(d))
                      => r.err # "TypeError"
                /\ r.err = "" =>
                      LET body == r.tr[r.val.id]
                      IN  /\ body.name = d
                          /\ Len(body.args) = Len(Defs[d].pos)
                          /\ \A i \in DOMAIN body.args :
                                Provides(r.tr, body.args[i], Defs[d].pos[i])
                          /\ Keys(body.kwargs) = Defs[d].kwonly
                          /\ \A i \in DOMAIN body.kwargs :
                                Provides(r.tr, body.kwargs[i][2],
                                         body.kwargs[i][1])

\* b(a) was registered before a(), the store was frozen, and the
\* computation of b returns
C5_Witness ==
    /\ FrozenOnce
    /\ Len(session_fixtures) = 2
    /\ session_fixtures[1].name = "b" /\ session_fixtures[2].name = "a"
    /\ Unwrap(fixts[session_fixtures[1].fixt].func) = "b"
    /\ Unwrap(fixts[session_fixtures[2].fixt].func) = "a"
    /\ ~fixts[session_fixtures[2].fixt].lazy
    /\ Computation(fixts, session_fixtures[1].fixt).err = ""

\* what calling the computation of Fixture k does: the error it ends
\* with, or the provider body it runs and the number of values it passes
Outcome(fx, k) ==
    LET r == Computation(fx, k)
    IN  IF r.err # "" THEN [err |-> r.err, def |-> "", nargs |-> 0]
        ELSE [err |-> "", def |-> r.tr[r.val.id].name,
              nargs |-> Len(r.tr[r.val.id].args) + Len(r.tr[r.val.id].kwargs)]

\* C6: freeze() is idempotent.  A freeze that follows a freeze leaves
\* what every registered fixture does when invoked unchanged: the same
\* provider is called with the same number of injected values, or the same
\* error is raised.
C6_FreezeIdempotent ==
    [][(result.op = "freeze" /\ result.err = "" /\ result'.op = "freeze")
          => \A k \in Registered : Outcome(fixts', k) = Outcome(fixts, k)]_vars

\* the injected keyword pairs of wrapper frame w, in order
RECURSIVE PairsFrom(_, _)
PairsFrom(i, w) ==
    IF i > Len(log) THEN <<>>
    ELSE IF /\ log[i].ev = "injected" /\ log[i].frame = w
            /\ KEYWORD_ONLY(log[w].func, log[i].name)
         THEN << <<log[i].name, log[i].val>> >> \o PairsFrom(i + 1, w)
         ELSE PairsFrom(i + 1, w)
InjectedKwargs(w) == PairsFrom(w, w)

InvokesOf(w) == {v \in Events("invoke") : log[v].frame = w}

\* the invocations that frame w starts after position v
CalleesAfter(w, v) ==
    {c \in DOMAIN log : c > v /\ log[c].frame = c /\ log[c].parent = w}

ExitOf(w) == CHOOSE x \in DOMAIN log : log[x].ev = "exit" /\ log[x].frame = w

\* C7: every invocation of a wrapper calls the original function at most
\* once, and exactly once when all its fixtures were obtained, with the
\* injected positional values (in declaration order), then the caller's
\* positional arguments, then the injected keyword values, then the
\* caller's keyword arguments; what the original returns or raises is what
\* the wrapper returns or raises.  So play(a, x) gets the value of a and
\* the caller's x, whether x is passed by position or by keyword.
C7_ArgumentOrder ==
    /\ \A w \in Events("enter") :
          LET f == log[w].func
              complete == /\ Len(InjectedArgs(w)) = Len(f.args_fixtures)
                          /\ Len(InjectedKwargs(w)) = Len(f.kwargs_fixtures)
          IN  /\ Cardinality(InvokesOf(w)) = (IF complete THEN 1 ELSE 0)
              /\ \A v \in InvokesOf(w) :
                    /\ log[v].args = InjectedArgs(w) \o log[w].args
                    /\ log[v].kwargs = InjectedKwargs(w) \o log[w].kwargs
                    /\ Cardinality(CalleesAfter(w, v)) <= 1
                    /\ \A c \in CalleesAfter(w, v) :
                          /\ c = v + 1
                          /\ log[c].ev = "enter" => log[c].func = f.inner
                          /\ log[c].ev = "body" => log[c].name = Unwrap(f)
                          /\ log[c].ev \in {"enter", "body"} =>
                                /\ log[c].args = log[v].args
                                /\ log[c].kwargs = log[v].kwargs
                          /\ log[ExitOf(w) - 1] = log[ExitOf(c)]
                          /\ log[ExitOf(w)].err = log[ExitOf(c)].err
                          /\ log[ExitOf(w)].val = log[ExitOf(c)].val
    /\ \A b \in Events("body") :
          (log[b].name = "play" /\ log[log[b].parent].ev = "enter") =>
              /\ Bind("play", log[b].args, log[b].kwargs).bound
                    = InjectedArgs(log[b].parent) \o <<Lit>>
              /\ Len(InjectedArgs(log[b].parent)) = 1

\* play(a, x) was resolved with a fixture a and called twice, with x by
\* position and with x by keyword; both calls returned
C7_Witness ==
    /\ result.op = "call" /\ result.err = ""
    /\ Unwrap(handle) = "play"
    /\ \E v1, v2 \in Events("invoke") :
          /\ log[log[v1].frame].func = handle
          /\ log[log[v2].frame].func = handle
          /\ Len(log[v1].args) = 2 /\ log[v1].kwargs = <<>>
          /\ Len(log[v2].args) = 1 /\ log[v2].kwargs = << <<"x", Lit>> >>
          /\ log[ExitOf(log[v1].frame)].err = ""

\* the first event of a function invocation
Starts == {c \in DOMAIN log : log[c].frame = c /\ log[c].ev # "call"}

\* the function invocation c is of
Started(c, f) ==
    \/ log[c].ev = "enter" /\ log[c].func = f
    \/ log[c].ev = "body" /\ f.kind # "with_fixtures"
                          /\ log[c].name = Unwrap(f)
    \/ log[c].ev = "exit" /\ log[c].err = "TypeError"
                          /\ f.kind # "with_fixtures"

\* C8: laziness is decided by the fixture, at injection.  For a lazy
\* fixture the wrapper injects the unawaited coroutine of its computation
\* and runs nothing to get it; the computation starts only when a body
\* that was handed the coroutine awaits it.  For a non-lazy fixture the
\* wrapper runs the computation to completion and injects the value it
\* returned.  Nothing else starts a fixture computation, and the provider
\* being synchronous or a coroutine function makes no difference.
C8_Laziness ==
    /\ \A j \in Events("injected") :
          LET fixt == fixts[log[j].fixt]
              e    == j - 1
          IN  IF fixt.lazy
              THEN /\ log[j].val = Coro(fixt.func)
                   /\ log[e].ev = "evaluate"
                   /\ log[e].frame = log[j].frame
                   /\ log[e].fixt = log[j].fixt
              ELSE /\ log[e].ev = "exit" /\ log[e].err = ""
                   /\ log[e].parent = log[j].frame
                   /\ log[e].val = log[j].val
                   /\ log[j].val.t = "obj"
                   /\ Started(log[e].frame, fixt.func)
                   /\ log[log[e].frame - 1].ev = "evaluate"
                   /\ log[log[e].frame - 1].fixt = log[j].fixt
                   /\ log[log[e].frame - 1].frame = log[j].frame
    /\ \A c \in Starts :
          \/ log[c - 1].ev \in {"call", "invoke"}
          \/ /\ log[c - 1].ev = "evaluate"
             /\ ~fixts[log[c - 1].fixt].lazy
             /\ Started(c, fixts[log[c - 1].fixt].func)
          \/ /\ log[c - 1].ev = "await"
             /\ Started(c, log[c - 1].val.func)
    /\ \A a \in Events("await") :
          LET b == log[a].frame
          IN  /\ log[b].ev = "body"
              /\ log[a].val.t = "coro"
              /\ \/ log[a].val \in Range(log[b].args)
                 \/ \E i \in DOMAIN log[b].kwargs :
                       log[b].kwargs[i][2] = log[a].val

\* view(a, *, b) was called with a lazy fixture a whose provider is a
\* coroutine function and a non-lazy fixture b whose provider is
\* synchronous: the provider of a ran only after the body of view had
\* started and awaited the handle, the provider of b before
C8_Witness ==
    /\ result.op = "call" /\ result.err = ""
    /\ \E i, j \in Events("injected") : \E a \in Events("await") :
          /\ log[i].frame = log[j].frame
          /\ log[log[i].frame].func = handle
          /\ fixts[log[i].fixt].lazy
          /\ Defs[Unwrap(fixts[log[i].fixt].func)].async
          /\ ~fixts[log[j].fixt].lazy
          /\ ~Defs[Unwrap(fixts[log[j].fixt].func)].async
          /\ log[a].val = log[i].val
          /\ log[log[a].frame].name = "view"
          /\ log[a + 1].ev = "body"
          /\ log[a + 1].name = Unwrap(fixts[log[i].fixt].func)
          /\ log[log[j].val.id].ev = "body"
          /\ log[j].val.id < log[a].frame

\* the evaluate events of wrapper frame w from position i on, in order
RECURSIVE EvaluatedFrom(_, _)
EvaluatedFrom(i, w) ==
    IF i > Len(log) THEN <<>>
    ELSE IF log[i].ev = "evaluate" /\ log[i].frame = w
         THEN << <<log[i].name, log[i].fixt>> >> \o EvaluatedFrom(i + 1, w)
         ELSE EvaluatedFrom(i + 1, w)
Evaluated(w) == EvaluatedFrom(w, w)

\* the events wrapper frame w emits itself
Own(w) == {i \in DOMAIN log : log[i].frame = w}

\* the next event of frame w after position i
NextOwn(w, i) == CHOOSE n \in Own(w) : n > i /\ \A m \in Own(w) : m > i => n <= m

\* position i lies inside the invocation that starts at c
RECURSIVE Inside(_, _)
Inside(i, c) ==
    IF i = c THEN TRUE
    ELSE IF log[i].ev = "call" THEN FALSE
    ELSE IF log[i].frame = i THEN Inside(log[i].parent, c)
    ELSE Inside(log[i].frame, c)

\* C9: one invocation of a wrapper evaluates its fixtures one at a time,
\* in the order of the parameters with the positional ones before the
\* keyword-only ones.  Everything that happens between the start of an
\* evaluation and the wrapper's next step belongs to that evaluation, the
\* next step being the injection of its value (or the wrapper's exit when
\* it failed); the original function is invoked after the last injection,
\* and its body and all it does come after that.  A fixture nested by
\* freeze is evaluated within the evaluation of its dependant.
C9_SequentialEvaluation ==
    \A w \in Events("enter") :
        LET f     == log[w].func
            order == f.args_fixtures \o f.kwargs_fixtures
            done  == Evaluated(w)
        IN  /\ Len(done) <= Len(order)
            /\ \A n \in DOMAIN done : done[n] = order[n]
            /\ \A e \in Own(w) : log[e].ev = "evaluate" =>
                  LET n == NextOwn(w, e)
                  IN  /\ log[n].ev \in {"injected", "exit"}
                      /\ log[n].ev = "injected" =>
                            /\ log[n].name = log[e].name
                            /\ log[n].fixt = log[e].fixt
                      /\ log[n].ev = "exit" => log[n].err # ""
                      /\ \A i \in (e + 1)..(n - 1) :
                            /\ i > e + 1 => Inside(i, e + 1)
                            /\ log[e + 1].frame = e + 1
                            /\ log[e + 1].parent = w
            /\ \A i \in Own(w) : log[i].ev = "injected" =>
                  log[NextOwn(w, i)].ev \in {"evaluate", "invoke"}
            /\ \A v \in Own(w) : log[v].ev = "invoke" =>
                  /\ done = order
                  /\ \A e \in Own(w) :
                        log[e].ev \in {"evaluate", "injected"} => e < v
                  /\ \A i \in DOMAIN log :
                        (i # w /\ Inside(i, w) /\ log[i].frame # w /\ i < v)
                           => \E e \in Own(w) :
                                 /\ log[e].ev = "evaluate"
                                 /\ Inside(i, e + 1)
                  /\ \A b \in Events("body") :
                        (log[b].parent = w /\ log[b].name = Unwrap(f))
                           => b > v

\* view(a, *, b) was called with non-lazy fixtures a and b(a), b frozen:
\* a was evaluated, then b with its own a inside, then the body ran
C9_Witness ==
    /\ result.op = "call" /\ result.err = ""
    /\ Unwrap(handle) = "view"
    /\ \E w \in Events("enter") :
          /\ log[w].func = handle
          /\ Len(Evaluated(w)) = 2
          /\ Evaluated(w)[1][1] = "a" /\ Evaluated(w)[2][1] = "b"
          /\ \A n \in 1..2 : ~fixts[Evaluated(w)[n][2]].lazy
          /\ \E e \in Events("evaluate") :
                /\ log[e].frame # w /\ Inside(e, w)
                /\ log[e].name = "a"
          /\ \E b \in Events("body") :
                log[b].parent = w /\ log[b].name = "view"

\* C10: the binding of a resolved function is fixed when it is made.
\* Whatever was registered since, every call of the function evaluates the
\* parameters and the Fixture objects that resolve_function bound, in that
\* order, and none when it bound none; what it runs for each is the
\* computation that Fixture object holds when the call is made, so a
\* freeze that replaced the computation is seen and a registration that
\* replaced the registry entry is not.
C10_BindingFixedAtWrapTime ==
    \A c \in Events("call") :
        LET w == c + 1
        IN  /\ Started(w, handle)
            /\ log[w].ev # "exit" =>
                  /\ log[w].args = log[c].args
                  /\ log[w].kwargs = log[c].kwargs
            /\ handle.kind = "with_fixtures" =>
                  LET bound == handle.args_fixtures \o handle.kwargs_fixtures
                      done  == Evaluated(w)
                  IN  /\ Len(done) <= Len(bound)
                      /\ \A n \in DOMAIN done : done[n] = bound[n]
                      /\ \A v \in InvokesOf(w) : done = bound
                      /\ \A e \in Own(w) : log[e].ev = "evaluate" =>
                            IF fixts[log[e].fixt].lazy
                            THEN log[e + 1].val = Coro(fixts[log[e].fixt].func)
                            ELSE \/ Started(e + 1, fixts[log[e].fixt].func)
                                 \/ log[e + 1].err = "RecursionError"
            /\ handle.kind # "with_fixtures" => Events("evaluate") = {}

\* play(a, x) was resolved, the name a was then registered again with
\* another provider, and the call evaluated the Fixture bound first
C10_Witness ==
    /\ result.op = "call" /\ result.err = ""
    /\ handle.kind = "with_fixtures"
    /\ \E e \in Events("evaluate") :
          /\ log[log[e].frame].func = handle
          /\ log[e].fixt # _get(session_fixtures, log[e].name)
          /\ Unwrap(fixts[log[e].fixt].func)
                # Unwrap(fixts[_get(session_fixtures, log[e].name)].func)

====
